---- MODULE Spec2Model ----
(***************************************************************************)
(* Model of the retry-governed generate/execute/validate pipeline of the   *)
(* data-analyst agent (app/agents/pipeline.py) together with the stage     *)
(* functions it calls (format_extractor.py, validator.py, coding_agent.py, *)
(* llm.py, core/sandbox.py).                                               *)
(*                                                                         *)
(* Time is counted in whole seconds, as run_pipeline itself does           *)
(* (int(time.time() - start)).  An external call is described by its       *)
(* latency d; a latency equal to the timeout stands for a reply that       *)
(* arrives in the last instant before expiry.                              *)
(***************************************************************************)
EXTENDS Integers, Sequences, FiniteSets, TLC

VARIABLES
    pc,               \* position of the run_pipeline coroutine
    deadline_secs,    \* argument of run_pipeline
    elapsed,          \* int(time.time() - start)
    attempt,          \* loop variable of: for attempt in range(max_retries)
    expected_format,  \* template returned by extract_expected_format, or None
    current_code,     \* last successfully generated code, or None
    feedback,         \* feedback handed to the next generation, or None
    last_result,      \* last sandbox result (set = FALSE while unbound)
    result,           \* value returned by run_pipeline
    ret,              \* how the run ended: return path and attempt
    calls,            \* number of calls issued so far, per stage
    lastCall,         \* the most recent stage call: stage, timeout, budget, time taken
    verdict,          \* what validate_output did in the current attempt
    lastExec,         \* the attempt and the code of the most recent sandbox run
    has_openai,       \* _has_openai(): the generator client is configured
    probe,            \* a stage function applied on its own: inputs and result
    loop              \* the event loop serving two requests: clock and coroutines

vars == <<pc, deadline_secs, elapsed, attempt, expected_format, current_code,
          feedback, last_result, result, ret, calls, lastCall, verdict, lastExec,
          has_openai, probe, loop>>

----------------------------------------------------------------------------
(* Bounds of the model *)

\* largest finite latency of an external call (generator or child process)
MaxDur == 100
\* largest deadline a caller passes
MaxDeadline == 120

Durations == {0, 15, 20, MaxDur}
Deadlines == {3, 12, 45, MaxDeadline}

----------------------------------------------------------------------------
(* Program constants *)

max_retries == 3
BudgetFloor == 5
GenerationThreshold == 10
FeedbackThreshold == 30
ExecutionThreshold == 15
ValidationThreshold == 20
FormatCap == 30
FeedbackCap == 15
GenerationCap == 60
ExecutionCap == 90
ValidationCap == 15
FeedbackBuffer == 10
ValidationBuffer == 5
GenerateCodeDefaultTimeout == 60

Min(a, b) == IF a <= b THEN a ELSE b
Max(a, b) == IF a >= b THEN a ELSE b

----------------------------------------------------------------------------
(* Python / JSON values.  Every value is a node of the same record shape.  *)

Node(t, s, n, b, keys, items) ==
    [t |-> t, s |-> s, n |-> n, b |-> b, keys |-> keys, items |-> items]

JNull == Node("null", "", 0, FALSE, <<>>, <<>>)
JStr(s) == Node("str", s, 0, FALSE, <<>>, <<>>)
JNum(n) == Node("num", "", n, FALSE, <<>>, <<>>)
JBool(b) == Node("bool", "", 0, b, <<>>, <<>>)
JArr(items) == Node("arr", "", 0, FALSE, <<>>, items)
JObj(keys, items) == Node("obj", "", 0, FALSE, keys, items)

\* the outcome of json.loads on a text that is not JSON (an exception)
JsonError == Node("error", "", 0, FALSE, <<>>, <<>>)

\* Python None
None == JNull

\* json.loads, tabulated on the texts the model uses
JsonLoads(text) ==
    CASE text = "[1, 2, 3]" -> JArr(<<JNum(1), JNum(2), JNum(3)>>)
      [] text = "null" -> JNull
      [] text = "[7, \"x\", true]" -> JArr(<<JNum(7), JStr("x"), JBool(TRUE)>>)
      [] text = "{\"name\": \"x\", \"n\": [1, 2]}" ->
            JObj(<<"name", "n">>, <<JStr("x"), JArr(<<JNum(1), JNum(2)>>)>>)
      [] text = "{\"valid\": true, \"feedback\": \"Valid\"}" ->
            JObj(<<"valid", "feedback">>, <<JBool(TRUE), JStr("Valid")>>)
      [] text = "{\"valid\": false, \"feedback\": \"wrong total\"}" ->
            JObj(<<"valid", "feedback">>, <<JBool(FALSE), JStr("wrong total")>>)
      [] text = "{\"valid\": \"false\", \"feedback\": \"wrong total\"}" ->
            JObj(<<"valid", "feedback">>, <<JStr("false"), JStr("wrong total")>>)
      [] text = "{}" -> JObj(<<>>, <<>>)
      [] text = "{\"feedback\": \"too few rows\"}" ->
            JObj(<<"feedback">>, <<JStr("too few rows")>>)
      [] text = "7" -> JNum(7)
      [] text = "{\"a\": 1}\n" -> JObj(<<"a">>, <<JNum(1)>>)
      [] text = "\"ok\"" -> JStr("ok")
      [] text = "{\"a\": {\"b\": 1}}" ->
            JObj(<<"a">>, <<JObj(<<"b">>, <<JNum(1)>>)>>)
      [] text = "{\"b\": 1}" -> JObj(<<"b">>, <<JNum(1)>>)
      [] text = "[1, 2]" -> JArr(<<JNum(1), JNum(2)>>)
      [] OTHER -> JsonError

\* dict.get(key, default) on a JSON object
DictGet(obj, key, default) ==
    IF \E i \in 1..Len(obj.keys) : obj.keys[i] = key
    THEN obj.items[CHOOSE i \in 1..Len(obj.keys) : obj.keys[i] = key]
    ELSE default

\* Python truthiness of a JSON value
Truthy(v) ==
    CASE v.t = "null" -> FALSE
      [] v.t = "str" -> v.s # ""
      [] v.t = "num" -> v.n # 0
      [] v.t = "bool" -> v.b
      [] v.t = "arr" -> Len(v.items) > 0
      [] v.t = "obj" -> Len(v.keys) > 0
      [] OTHER -> FALSE

----------------------------------------------------------------------------
(* Strings: Python's None for a str | None variable, and truthiness.       *)

NoneStr == "<None>"
StrTruthy(s) == s # NoneStr /\ s # ""

\* a wait bounded by `timeout` on a call of latency d; `edge` decides a
\* reply that arrives in the last instant (d = timeout)
InTime(d, timeout, edge) == d < timeout \/ (d = timeout /\ edge)

----------------------------------------------------------------------------
(* llm.py *)

StubCode == "import json\nprint(json.dumps(['stub']))\n"

\* generate_plain run through asyncio.wait_for(asyncio.to_thread(...), timeout):
\* the text the awaiting coroutine gets, the time it waited, and whether
\* wait_for raised TimeoutError.  ev.available is _has_openai().
\* ev.fault = "call" is an exception inside _call (caught there, the text is
\* empty); ev.fault = "thread" is an exception that leaves the awaited call
\* (the worker thread cannot be started): raised = TRUE.
generate_plain(ev, timeout) ==
    IF ev.fault = "thread"
    THEN [text |-> "", dur |-> 0, timedout |-> FALSE, raised |-> TRUE]
    ELSE IF ~ev.available
    THEN [text |-> "", dur |-> 0, timedout |-> FALSE, raised |-> FALSE]
    ELSE IF ev.responds /\ InTime(ev.d, timeout, ev.edge)
         THEN [text |-> IF ev.fault = "call" THEN "" ELSE ev.reply,
               dur |-> ev.d, timedout |-> FALSE, raised |-> FALSE]
         ELSE [text |-> "", dur |-> Max(timeout, 0), timedout |-> TRUE,
               raised |-> FALSE]

\* generate_code(prompt, timeout): returns the reply when the call finishes
\* before `timeout` and the stub otherwise; leaving the with
\* ThreadPoolExecutor() block joins the worker thread, so the function
\* returns only when the upstream call has finished (returns = FALSE: never).
\* An exception inside _call gives the stub; one raised by ex.submit leaves
\* the function (raised = TRUE).
generate_code(ev, timeout) ==
    IF ~ev.available
    THEN [code |-> StubCode, dur |-> 0, returns |-> TRUE, raised |-> FALSE]
    ELSE IF ev.fault = "thread"
    THEN [code |-> StubCode, dur |-> 0, returns |-> TRUE, raised |-> TRUE]
    ELSE IF ~ev.responds
         THEN [code |-> StubCode, dur |-> 0, returns |-> FALSE, raised |-> FALSE]
         ELSE [code |-> IF InTime(ev.d, timeout, ev.edge) /\ ev.reply # ""
                             /\ ev.fault = "none"
                        THEN ev.reply ELSE StubCode,
               dur |-> ev.d, returns |-> TRUE, raised |-> FALSE]

----------------------------------------------------------------------------
(* coding_agent.py *)

\* re.findall of the python code fences in the reply, tabulated; ~~~ stands
\* for the fence of three backquotes
PythonFences(code) ==
    CASE code = "~~~python\nprint(1)\n~~~" -> <<"print(1)\n">>
      [] code = "Draft:\n~~~python\nprint(0)\n~~~\nFinal:\n~~~python\nprint(1)\n~~~"
            -> <<"print(0)\n", "print(1)\n">>
      [] code = "~~~python\n~~~" -> <<"">>
      [] OTHER -> <<>>

\* faulty variant: the check for the stub is left out
ContainsStubNever(code) == FALSE

\* the membership test for the stub line in the generated code, tabulated
ContainsStub(code) ==
    code \in {StubCode, "~~~python\n" \o StubCode \o "~~~"}

\* generate_code_for_task(task, timeout, feedback): the code returned or
\* CodeGenError raised (exc), the time taken, and the bound the generator
\* call was actually waited with.  The timeout argument is not passed on:
\* generate_code runs with its default.
generate_code_for_task(ev, timeout, fb) ==
    LET g == generate_code(ev, GenerateCodeDefaultTimeout)
        m == PythonFences(g.code)
    IN  [exc |-> g.raised \/ g.code = "" \/ ContainsStub(g.code),
         error |-> IF g.raised THEN "RuntimeError"
                   ELSE IF g.code = "" \/ ContainsStub(g.code) THEN "CodeGenError"
                   ELSE "",
         code |-> IF Len(m) > 0 THEN m[Len(m)] ELSE g.code,
         raw |-> g.code,
         dur |-> g.dur,
         returns |-> g.returns,
         fb_in_prompt |-> StrTruthy(fb)]

----------------------------------------------------------------------------
(* core/sandbox.py *)

\* the sandbox result dictionary; set = FALSE is the unbound local last_result
SandboxResult(ok, stdout, stderr, stdout_json) ==
    [set |-> TRUE, ok |-> ok, stdout |-> stdout, stderr |-> stderr,
     stdout_json |-> stdout_json]

Unbound == [set |-> FALSE, ok |-> FALSE, stdout |-> "", stderr |-> "",
            stdout_json |-> None]

\* faulty variant: json.loads(out) outside the try block, its failure is not
\* turned into None
ParseStdoutUnguarded(out) == JsonLoads(out)

\* data["stdout_json"] = json.loads(out), None when that raises
ParseStdout(out) ==
    IF JsonLoads(out) = JsonError THEN None ELSE JsonLoads(out)

\* faulty variant: the wait on the child is given up at the time limit and
\* the child is left running
SandboxTimedOutAbandoned(timeout) ==
    [exc |-> FALSE,
     data |-> SandboxResult(FALSE, "", "timeout", ParseStdout("")),
     dur |-> timeout, child |-> "running", tmpfile |-> "removed"]

\* lines 61-69: subprocess.run(..., timeout=timeout) raised TimeoutExpired.
\* subprocess.run kills the child and waits for it before it raises; _run
\* then returns (1, b"", b"timeout", "timeout").
SandboxTimedOut(timeout) ==
    [exc |-> FALSE,
     data |-> SandboxResult(FALSE, "", "timeout", ParseStdout("")),
     dur |-> timeout, child |-> "reaped", tmpfile |-> "removed"]

\* run_python_in_sandbox(code, attachments, questions_txt, timeout).
\* ev.kind: "exit" (the child ran; latency d, exit code rc, output stdout),
\* "oserror" (subprocess.run raised inside _run: the child was not started),
\* "create_error" (NamedTemporaryFile raised), "write_error" (tmp.write or
\* the close of the file raised),
\* "raise" (an exception outside _run: _build_script or to_thread).
\* child: the state of the child process when the call returns.
\* tmpfile: the state of the temporary script when the call returns; the
\* finally block removes the file named by tmp_path, which is assigned
\* after tmp.write(script).
run_python_in_sandbox(code, ev, timeout) ==
    CASE ev.kind = "raise" ->
            [exc |-> TRUE, data |-> Unbound, dur |-> 0, child |-> "none",
             tmpfile |-> "none"]
      [] ev.kind = "create_error" ->
            [exc |-> FALSE,
             data |-> SandboxResult(FALSE, "", "OSError", ParseStdout("")),
             dur |-> 0, child |-> "none", tmpfile |-> "none"]
      [] ev.kind = "write_error" ->
            [exc |-> FALSE,
             data |-> SandboxResult(FALSE, "", "OSError", ParseStdout("")),
             dur |-> 0, child |-> "none", tmpfile |-> "left"]
      [] ev.kind = "oserror" ->
            [exc |-> FALSE,
             data |-> SandboxResult(FALSE, "", "OSError", ParseStdout("")),
             dur |-> 0, child |-> "none", tmpfile |-> "removed"]
      [] OTHER ->
            IF InTime(ev.d, timeout, ev.edge)
            THEN [exc |-> FALSE,
                  data |-> SandboxResult(ev.rc = 0, ev.stdout,
                                         IF ev.rc = 0 THEN "" ELSE "Traceback",
                                         ParseStdout(ev.stdout)),
                  dur |-> ev.d, child |-> "reaped", tmpfile |-> "removed"]
            ELSE SandboxTimedOut(timeout)

----------------------------------------------------------------------------
(* core/sandbox.py: _build_script.  A text is a sequence of characters; the *)
(* characters that matter to the harness are named: QUOTE ('), DQUOTE ("),  *)
(* BSLASH (\), NUL (the null character), NL (newline), EACUTE (a character  *)
(* outside ASCII, two bytes in UTF-8; as a byte, a value above 127).        *)

\* longest injected text
MaxLen == 2

Chars == {"a", "QUOTE", "DQUOTE", "BSLASH", "NUL", "NL", "EACUTE"}
Texts == UNION {[1..n -> Chars] : n \in 0..MaxLen}

RECURSIVE Flatten(_)
Flatten(seqs) ==
    IF Len(seqs) = 0 THEN <<>> ELSE Head(seqs) \o Flatten(Tail(seqs))

\* the quote repr() puts around the text: the double quote when the text
\* has a single quote and no double quote
ReprQuote(s) ==
    IF (\E i \in 1..Len(s) : s[i] = "QUOTE") /\ ~(\E i \in 1..Len(s) : s[i] = "DQUOTE")
    THEN "DQUOTE" ELSE "QUOTE"

\* repr() of one character of a str or of one byte of a bytes object
ReprChar(c, q, kind) ==
    CASE c = "BSLASH" -> <<"BSLASH", "BSLASH">>
      [] c = q -> <<"BSLASH", q>>
      [] c = "NUL" -> <<"BSLASH", "x", "0", "0">>
      [] c = "NL" -> <<"BSLASH", "n">>
      [] c = "EACUTE" /\ kind = "bytes" -> <<"BSLASH", "x", "e", "9">>
      [] OTHER -> <<c>>

\* faulty variant: the value is put between quotes as it is
ReprUnescaped(s, kind) ==
    (IF kind = "bytes" THEN <<"b">> ELSE <<>>) \o <<"QUOTE">> \o s \o <<"QUOTE">>

\* {k!r} and {v!r}: the Python literal of a str or bytes value
Repr(s, kind) ==
    LET q == ReprQuote(s)
    IN  (IF kind = "bytes" THEN <<"b">> ELSE <<>>)
            \o <<q>> \o Flatten([i \in 1..Len(s) |-> ReprChar(s[i], q, kind)]) \o <<q>>

\* str.encode('utf-8')
Utf8Char(c) ==
    CASE c = "a" -> <<97>>
      [] c = "QUOTE" -> <<39>>
      [] c = "DQUOTE" -> <<34>>
      [] c = "BSLASH" -> <<92>>
      [] c = "NUL" -> <<0>>
      [] c = "NL" -> <<10>>
      [] c = "EACUTE" -> <<195, 169>>

Utf8Encode(s) == Flatten([i \in 1..Len(s) |-> Utf8Char(s[i])])

\* bytes.decode('utf-8', 'ignore'): bytes that are no character are dropped
RECURSIVE Utf8Decode(_)
Utf8Decode(bytes) ==
    IF Len(bytes) = 0 THEN <<>>
    ELSE IF Len(bytes) >= 2 /\ bytes[1] = 195 /\ bytes[2] = 169
    THEN <<"EACUTE">> \o Utf8Decode(SubSeq(bytes, 3, Len(bytes)))
    ELSE IF \E c \in Chars : Utf8Char(c) = <<bytes[1]>>
    THEN <<CHOOSE c \in Chars : Utf8Char(c) = <<bytes[1]>> >> \o Utf8Decode(Tail(bytes))
    ELSE Utf8Decode(Tail(bytes))

B64Alphabet ==
    <<"A", "B", "C", "D", "E", "F", "G", "H", "I", "J", "K", "L", "M", "N", "O", "P",
      "Q", "R", "S", "T", "U", "V", "W", "X", "Y", "Z", "a", "b", "c", "d", "e", "f",
      "g", "h", "i", "j", "k", "l", "m", "n", "o", "p", "q", "r", "s", "t", "u", "v",
      "w", "x", "y", "z", "0", "1", "2", "3", "4", "5", "6", "7", "8", "9", "+", "/">>

B64Char(n) == B64Alphabet[n + 1]
B64Index(c) == (CHOOSE i \in 1..Len(B64Alphabet) : B64Alphabet[i] = c) - 1

\* base64.b64encode: three bytes give four characters, the rest is padded
RECURSIVE B64Encode(_)
B64Encode(bytes) ==
    IF Len(bytes) = 0 THEN <<>>
    ELSE IF Len(bytes) = 1
    THEN <<B64Char(bytes[1] \div 4), B64Char((bytes[1] % 4) * 16), "=", "=">>
    ELSE IF Len(bytes) = 2
    THEN <<B64Char(bytes[1] \div 4),
           B64Char((bytes[1] % 4) * 16 + bytes[2] \div 16),
           B64Char((bytes[2] % 16) * 4), "=">>
    ELSE <<B64Char(bytes[1] \div 4),
           B64Char((bytes[1] % 4) * 16 + bytes[2] \div 16),
           B64Char((bytes[2] % 16) * 4 + bytes[3] \div 64),
           B64Char(bytes[3] % 64)>>
             \o B64Encode(SubSeq(bytes, 4, Len(bytes)))

\* base64.b64decode of well-formed text
RECURSIVE B64Decode(_)
B64Decode(chars) ==
    IF Len(chars) < 4 THEN <<>>
    ELSE LET i1 == B64Index(chars[1])
             i2 == B64Index(chars[2])
             b1 == i1 * 4 + i2 \div 16
         IN  IF chars[3] = "=" THEN <<b1>>
             ELSE LET i3 == B64Index(chars[3])
                      b2 == (i2 % 16) * 16 + i3 \div 4
                  IN  IF chars[4] = "=" THEN <<b1, b2>>
                      ELSE <<b1, b2, (i3 % 4) * 64 + B64Index(chars[4])>>
                               \o B64Decode(SubSeq(chars, 5, Len(chars)))

\* _build_script(code, attachments, questions_txt, None) for one attachment
\* name |-> data: the script as one text, its lines joined by newlines
_build_script(code, name, data, questions_txt) ==
    <<"PREFIX", "NL">>
        \o <<"attachments", "[">> \o Repr(name, "str") \o <<"]", "=">>
        \o Repr(data, "bytes")
        \o <<"NL", "_qt_b64", "=", "QUOTE">>
        \o B64Encode(Utf8Encode(questions_txt)) \o <<"QUOTE">>
        \o <<"NL", "questions_txt", "=", "b64decode(_qt_b64).decode()">>
        \o <<"NL", "sourced_data", "=", "None">>
        \o <<"NL", code>>

\* the lines of a script
RECURSIVE SplitLines(_)
SplitLines(text) ==
    IF \E i \in 1..Len(text) : text[i] = "NL"
    THEN LET i == CHOOSE j \in 1..Len(text) :
                      text[j] = "NL" /\ \A k \in 1..(j - 1) : text[k] # "NL"
         IN  <<SubSeq(text, 1, i - 1)>> \o SplitLines(SubSeq(text, i + 1, Len(text)))
    ELSE <<text>>

\* Python reading a string literal whose opening quote q is at i - 1: the
\* value, the position after the closing quote, and whether the literal is
\* well formed
RECURSIVE ScanLiteral(_, _, _, _)
ScanLiteral(toks, i, q, acc) ==
    IF i > Len(toks) \/ toks[i] = "NUL"
    THEN [ok |-> FALSE, value |-> acc, next |-> i]
    ELSE IF toks[i] = q
    THEN [ok |-> TRUE, value |-> acc, next |-> i + 1]
    ELSE IF toks[i] # "BSLASH"
    THEN ScanLiteral(toks, i + 1, q, acc \o <<toks[i]>>)
    ELSE IF i + 1 > Len(toks)
    THEN [ok |-> FALSE, value |-> acc, next |-> i]
    ELSE IF toks[i + 1] \in {"BSLASH", "QUOTE", "DQUOTE"}
    THEN ScanLiteral(toks, i + 2, q, acc \o <<toks[i + 1]>>)
    ELSE IF toks[i + 1] = "n"
    THEN ScanLiteral(toks, i + 2, q, acc \o <<"NL">>)
    ELSE IF toks[i + 1] = "x" /\ i + 3 <= Len(toks)
              /\ <<toks[i + 2], toks[i + 3]>> \in {<<"0", "0">>, <<"e", "9">>}
    THEN ScanLiteral(toks, i + 4, q,
                     acc \o <<IF toks[i + 2] = "0" THEN "NUL" ELSE "EACUTE">>)
    ELSE [ok |-> FALSE, value |-> acc, next |-> i]

\* a literal that starts at position i of a line
ReadLiteral(toks, i) ==
    IF i <= Len(toks) /\ toks[i] \in {"QUOTE", "DQUOTE"}
    THEN ScanLiteral(toks, i + 1, toks[i], <<>>)
    ELSE [ok |-> FALSE, value |-> <<>>, next |-> i]

\* the child running the script: whether the harness has the structure
\* _build_script laid out, and the bindings the user code then sees
RunHarness(script) ==
    LET lines == SplitLines(script)
        l2 == lines[2]
        k == ReadLiteral(l2, 3)
        v == ReadLiteral(l2, k.next + 3)
        l3 == lines[3]
        b == ReadLiteral(l3, 3)
        shaped == /\ Len(lines) = 6
                  /\ lines[1] = <<"PREFIX">>
                  /\ Len(l2) >= 2 /\ SubSeq(l2, 1, 2) = <<"attachments", "[">>
                  /\ k.ok /\ k.next + 2 <= Len(l2)
                  /\ SubSeq(l2, k.next, k.next + 2) = <<"]", "=", "b">>
                  /\ v.ok /\ v.next = Len(l2) + 1
                  /\ Len(l3) >= 2 /\ SubSeq(l3, 1, 2) = <<"_qt_b64", "=">>
                  /\ b.ok /\ b.next = Len(l3) + 1
                  /\ lines[4] = <<"questions_txt", "=", "b64decode(_qt_b64).decode()">>
                  /\ lines[5] = <<"sourced_data", "=", "None">>
    IN  IF shaped
        THEN [ok |-> TRUE, name |-> k.value, data |-> v.value,
              questions_txt |-> Utf8Decode(B64Decode(b.value))]
        ELSE [ok |-> FALSE, name |-> <<>>, data |-> <<>>, questions_txt |-> <<>>]

----------------------------------------------------------------------------
(* format_extractor.py *)

\* the response with leading and trailing code-fence lines removed
StripFences(text) ==
    CASE text = "~~~json\n[7, \"x\", true]\n~~~" -> "[7, \"x\", true]"
      [] OTHER -> text

\* re.findall of the object and array substrings of the response, tabulated
JsonMatches(text) ==
    CASE text = "Expected: [7, \"x\", true] as the answer" -> <<"[7, \"x\", true]">>
      [] text = "use {\"name\": \"x\", \"n\": [1, 2]} please" ->
            <<"{\"name\": \"x\", \"n\": [1, 2]}">>
      [] text = "{x} then [7, \"x\", true]" -> <<"{x}", "[7, \"x\", true]">>
      \* the shortest match ends at the first closing brace
      [] text = "Format: {\"a\": {\"b\": 1}} thanks" -> <<"{\"a\": {\"b\": 1}">>
      [] OTHER -> <<>>

\* extract_expected_format(questions_txt, timeout): the template or None,
\* and the time taken
extract_expected_format(ev, timeout) ==
    LET g == generate_plain(ev, timeout)
        cleaned == StripFences(g.text)
        ms == JsonMatches(cleaned)
        good == {i \in 1..Len(ms) : JsonLoads(ms[i]) # JsonError}
    IN  [exc |-> FALSE,
         dur |-> g.dur,
         template |->
            IF g.timedout THEN None
            ELSE IF JsonLoads(cleaned) # JsonError THEN JsonLoads(cleaned)
            ELSE IF good # {} THEN JsonLoads(ms[CHOOSE i \in good : \A j \in good : i <= j])
            ELSE None]

create_fallback_format ==
    JObj(<<"error", "result">>, <<JStr("timeout"), JStr("default")>>)

\* faulty variant: the test for numbers comes before the test for booleans,
\* and a Python bool is an int
_default_for_bool_as_number(value) ==
    CASE value.t = "str" -> JStr("default")
      [] value.t = "bool" -> JNum(0)
      [] value.t = "num" -> JNum(0)
      [] OTHER -> JStr("default")

_default_for(value) ==
    CASE value.t = "str" -> JStr("default")
      [] value.t = "bool" -> JBool(FALSE)
      [] value.t = "num" -> JNum(0)
      [] OTHER -> JStr("default")

RECURSIVE fill_template(_)
fill_template(obj) ==
    CASE obj.t = "obj" ->
            JObj(obj.keys,
                 [i \in 1..Len(obj.items) |->
                    IF obj.items[i].t \in {"obj", "arr"}
                    THEN fill_template(obj.items[i])
                    ELSE _default_for(obj.items[i])])
      [] obj.t = "arr" ->
            IF Len(obj.items) = 0 THEN JArr(<<>>)
            ELSE JArr(<<fill_template(obj.items[1])>>)
      [] OTHER -> _default_for(obj)

\* faulty variant: the template is filled without the test for None
populate_format_unchecked(format_template) == fill_template(format_template)

populate_format_with_timeout_message(format_template) ==
    IF format_template = None THEN create_fallback_format
    ELSE fill_template(format_template)

----------------------------------------------------------------------------
(* validator.py *)

\* the verdict text inside a json code fence, when the response has one
VerdictFence(text) ==
    CASE text = "~~~json\n{\"valid\": true, \"feedback\": \"Valid\"}\n~~~" ->
            "{\"valid\": true, \"feedback\": \"Valid\"}"
      [] OTHER -> text

\* str.strip() of the validator's response, tabulated
StripText(text) ==
    CASE text = "  \n" -> ""
      [] OTHER -> text

\* faulty variant: output that is not JSON is let through
ValidatorBadStdoutFailOpen(stdout) ==
    [exc |-> FALSE, is_valid |-> JBool(TRUE), asked |-> FALSE, dur |-> 0,
     feedback |-> "Code did not produce valid JSON output. Stdout was: " \o stdout]

\* lines 36-42: stdout_json is None and stdout does not parse
ValidatorBadStdout(stdout) ==
    [exc |-> FALSE, is_valid |-> JBool(FALSE), asked |-> FALSE, dur |-> 0,
     feedback |-> "Code did not produce valid JSON output. Stdout was: " \o stdout]

\* faulty variant: a validator that cannot be reached rejects the output
ValidatorFailClosed(dur, text) ==
    [exc |-> FALSE, is_valid |-> JBool(FALSE), asked |-> TRUE, dur |-> dur,
     feedback |-> text]

\* lines 85-92 and 99-102: the validator gave no answer, the output is
\* assumed valid
ValidatorFailOpen(dur, text) ==
    [exc |-> FALSE, is_valid |-> JBool(TRUE), asked |-> TRUE, dur |-> dur,
     feedback |-> text]

\* faulty variant: a reply that cannot be read as a verdict is taken as approval
ValidatorParseErrorFailOpen(dur, text) ==
    [exc |-> FALSE, is_valid |-> JBool(TRUE), asked |-> TRUE, dur |-> dur,
     feedback |-> "Validation parsing error. Raw response: " \o text]

\* lines 124-128: the reply is not JSON, or is JSON without a get method
ValidatorParseError(dur, text) ==
    [exc |-> FALSE, is_valid |-> JBool(FALSE), asked |-> TRUE, dur |-> dur,
     feedback |-> "Validation parsing error. Raw response: " \o text]

\* validate_output(questions_txt, generated_code, code_output, attachments,
\* timeout): (is_valid, feedback), the time taken, whether the generator was
\* asked, and whether an exception escapes (exc)
validate_output(code_output, ev, timeout) ==
    LET actual == IF code_output.stdout_json # None THEN code_output.stdout_json
                  ELSE JsonLoads(code_output.stdout)
        g == generate_plain(ev, timeout)
        vj == JsonLoads(VerdictFence(g.text))
    IN  IF ~code_output.ok
        THEN [exc |-> FALSE, is_valid |-> JBool(FALSE), asked |-> FALSE, dur |-> 0,
              feedback |-> "Code execution failed with error: " \o code_output.stderr]
        ELSE IF actual = JsonError
        THEN ValidatorBadStdout(code_output.stdout)
        ELSE IF g.timedout
        THEN ValidatorFailOpen(g.dur, "Validator timed out, assuming output is valid")
        ELSE IF g.raised
        THEN ValidatorFailOpen(g.dur, "Validator API failed, assuming output is valid")
        ELSE IF StripText(g.text) = ""
        THEN ValidatorFailOpen(g.dur,
                 "Validator returned empty response, assuming output is valid")
        ELSE IF vj = JsonError \/ vj.t # "obj"
        THEN ValidatorParseError(g.dur, g.text)
        ELSE [exc |-> FALSE, is_valid |-> DictGet(vj, "valid", JBool(FALSE)),
              asked |-> TRUE, dur |-> g.dur,
              feedback |-> DictGet(vj, "feedback", JStr("Unknown validation error")).s]

\* faulty variant: the generator call is not wrapped in try/except, TimeoutError escapes
generate_feedback_for_retry_uncaught(error_message, ev, timeout) ==
    LET g == generate_plain(ev, timeout)
    IN  [exc |-> g.timedout \/ g.raised, dur |-> g.dur, feedback |-> g.text]

\* generate_feedback_for_retry(questions_txt, previous_code, error_message,
\* code_output, attachments, timeout): the feedback text and the time taken
generate_feedback_for_retry(error_message, ev, timeout) ==
    LET g == generate_plain(ev, timeout)
    IN  [exc |-> FALSE,
         dur |-> g.dur,
         feedback |-> IF g.timedout
                      THEN "Feedback generation timed out. Original error: "
                             \o error_message
                      ELSE IF g.raised
                      THEN "Could not generate feedback. Original error: "
                             \o error_message
                      ELSE g.text]

\* lines 153-180: the texts the feedback prompt is built from
FeedbackPromptParts(previous_code, error_message, code_output) ==
    {previous_code, error_message, code_output.stderr, code_output.stdout}

----------------------------------------------------------------------------
(* The environment: what the generator and the child process may do.       *)

FormatReplies == {"", "[7, \"x\", true]",
                  "~~~json\n[7, \"x\", true]\n~~~",
                  "Expected: [7, \"x\", true] as the answer", "no idea"}
FeedbackReplies == {"", "Parse the date column before grouping"}
VerdictReplies == {"", "{\"valid\": true, \"feedback\": \"Valid\"}",
                   "~~~json\n{\"valid\": true, \"feedback\": \"Valid\"}\n~~~",
                   "{\"valid\": false, \"feedback\": \"wrong total\"}",
                   "[1, 2, 3]", "looks fine to me"}
CodeReplies == {"", StubCode, "~~~python\n" \o StubCode \o "~~~",
                "print(1)\n", "~~~python\nprint(1)\n~~~",
                "Draft:\n~~~python\nprint(0)\n~~~\nFinal:\n~~~python\nprint(1)\n~~~",
                "~~~python\n~~~"}
Stdouts == {"[1, 2, 3]", "null", "oops", ""}

\* one call of the external generator: is the client configured, does the
\* upstream call ever answer, after how long, with what, and does it fail
\* ("call": inside _call, "thread": when the worker thread is started)
GeneratorEventsOf(available, replies, timeout) ==
    {e \in [available : {available}, responds : BOOLEAN, d : Durations,
            edge : BOOLEAN, reply : replies, fault : {"none", "call", "thread"}] :
        /\ (e.edge => e.d = timeout)
        /\ (~e.available \/ ~e.responds) => (e.d = 0 /\ e.reply = "")
        /\ ~e.available => (e.responds /\ e.fault = "none")
        /\ e.fault # "none" => (e.responds /\ e.reply = "")
        /\ e.fault = "thread" => e.d = 0}

\* the calls a run can see: the client is configured for the whole process or
\* not at all
GeneratorEvents(replies, timeout) == GeneratorEventsOf(has_openai, replies, timeout)

\* one run of the child process on `code`: what happens (kinds) and what
\* the child prints (stdouts)
SandboxEventsOf(kinds, stdouts, code, timeout) ==
    {e \in [kind : kinds, rc : {0, 1}, stdout : stdouts,
            d : Durations, edge : BOOLEAN] :
        /\ (e.edge => e.d = timeout)
        /\ e.kind # "exit" => (e.rc = 1 /\ e.stdout = "" /\ e.d = 0)
        /\ e.rc = 1 => e.stdout \in {"", "[1, 2, 3]"}
        /\ code = "" => (e.rc = 0 /\ e.stdout = "") \/ e.kind # "exit"}

\* the runs a pipeline sees
SandboxEvents(code, timeout) ==
    SandboxEventsOf({"exit", "oserror", "raise"}, Stdouts, code, timeout)

----------------------------------------------------------------------------
(* pipeline.py: run_pipeline *)

\* remaining = lambda: max(5, deadline_secs - int(time.time() - start))
remaining == Max(BudgetFloor, deadline_secs - elapsed)

ErrorMessage == "Previous attempt failed validation or execution"

NoCall == [stage |-> "none", attempt |-> 0, timeout |-> 0, rem |-> 0, dur |-> 0,
           fb |-> FALSE, handed |-> {}, got |-> ""]
NoProbe == [fn |-> "none"]
NoLoop == [now |-> 0, req |-> <<>>]
NoVerdict == [called |-> FALSE, raised |-> FALSE, valid |-> FALSE, late |-> FALSE]

Init ==
    /\ pc = "extract"
    /\ deadline_secs \in Deadlines
    /\ elapsed = 0
    /\ attempt = 0
    /\ expected_format = None
    /\ current_code = NoneStr
    /\ feedback = NoneStr
    /\ last_result = Unbound
    /\ result = None
    /\ ret = [path |-> "none", attempt |-> 0]
    /\ calls = [extract |-> 0, feedback |-> 0, generate |-> 0, execute |-> 0,
                validate |-> 0]
    /\ lastCall = NoCall
    /\ verdict = NoVerdict
    /\ lastExec = [attempt |-> -1, code |-> NoneStr]
    /\ has_openai \in BOOLEAN
    /\ probe = NoProbe
    /\ loop = NoLoop

\* record a stage call: its timeout, the budget when it started, the time it
\* took, the texts handed to it about the previous attempt and the text it gave
CallWith(stage, timeout, dur, fb, handed, got) ==
    /\ calls' = [calls EXCEPT ![stage] = @ + 1]
    /\ lastCall' = [stage |-> stage, attempt |-> attempt, timeout |-> timeout,
                    rem |-> remaining, dur |-> dur, fb |-> fb,
                    handed |-> handed, got |-> got]

Call(stage, timeout, dur, fb) == CallWith(stage, timeout, dur, fb, {}, "")

\* return value to the caller
Return(value, path) ==
    /\ pc' = "done"
    /\ result' = value
    /\ ret' = [path |-> path, attempt |-> attempt]

\* lines 23-36: extract the expected format once, before the loop
ExtractTimeout == Min(FormatCap, remaining)

ExtractFormat ==
    /\ pc = "extract"
    /\ \E ev \in GeneratorEvents(FormatReplies, ExtractTimeout) :
        LET r == extract_expected_format(ev, ExtractTimeout)
        IN  /\ expected_format' = IF r.exc THEN None ELSE r.template
            /\ elapsed' = elapsed + r.dur
            /\ Call("extract", ExtractTimeout, r.dur, FALSE)
    /\ pc' = "loop"
    /\ UNCHANGED <<has_openai, probe, loop, deadline_secs, lastExec, attempt, current_code, feedback, last_result,
                   result, ret, verdict>>

\* faulty variant: feedback is asked for on every retry, whether or not an
\* earlier attempt generated code
NeedsFeedbackAnyCode == attempt > 0

\* line 79: if attempt > 0 and current_code
NeedsFeedback == attempt > 0 /\ StrTruthy(current_code)

\* lines 63-85: top of an iteration, the budget checks before generation and
\* before feedback generation
LoopTop ==
    /\ pc = "loop"
    /\ IF attempt >= max_retries
       THEN /\ Return(populate_format_with_timeout_message(expected_format),
                      "unexpected_end")
            /\ UNCHANGED feedback
       ELSE IF remaining <= GenerationThreshold
       THEN /\ Return(populate_format_with_timeout_message(expected_format),
                      "timeout_generation")
            /\ UNCHANGED feedback
       ELSE IF NeedsFeedback
       THEN IF remaining <= FeedbackThreshold
            THEN /\ Return(populate_format_with_timeout_message(expected_format),
                           "timeout_feedback")
                 /\ feedback' = NoneStr
            ELSE /\ pc' = "feedback"
                 /\ feedback' = NoneStr
                 /\ UNCHANGED <<result, ret>>
       ELSE /\ pc' = "generate"
            /\ feedback' = NoneStr
            /\ UNCHANGED <<result, ret>>
    /\ verdict' = NoVerdict
    /\ UNCHANGED <<has_openai, probe, loop, deadline_secs, lastExec, elapsed, attempt, expected_format, current_code,
                   last_result, calls, lastCall>>

\* faulty variant: the feedback call is given the whole remaining budget
FeedbackTimeoutWholeBudget == remaining

\* lines 87-100: generate feedback for the retry
FeedbackTimeout == Min(FeedbackCap, remaining - FeedbackBuffer)

GenerateFeedback ==
    /\ pc = "feedback"
    /\ \E ev \in GeneratorEvents(FeedbackReplies, FeedbackTimeout) :
        LET r == generate_feedback_for_retry(ErrorMessage, ev, FeedbackTimeout)
        IN  /\ CallWith("feedback", FeedbackTimeout, r.dur, FALSE,
                        FeedbackPromptParts(current_code, ErrorMessage, last_result),
                        "")
            /\ elapsed' = elapsed + r.dur
            /\ IF r.exc   \* line 90 is in no try block
               THEN pc' = "raised" /\ UNCHANGED feedback
               ELSE pc' = "generate" /\ feedback' = r.feedback
    /\ UNCHANGED <<has_openai, probe, loop, deadline_secs, lastExec, attempt, expected_format, current_code,
                   last_result, result, ret, verdict>>

\* lines 102-124: generate the code; CodeGenError is a failed attempt
GenerationTimeout == Min(GenerationCap, remaining)

\* faulty variant: a failed generation is retried without counting the attempt
GenerationFailedNotCounted ==
    /\ pc' = "loop"
    /\ UNCHANGED <<attempt, result, ret>>

\* faulty variant: the first failed generation ends the run
GenerationFailedGivesUp ==
    /\ Return(populate_format_with_timeout_message(expected_format),
              "generation_failed")
    /\ UNCHANGED attempt

\* faulty variant: after a failed generation the code kept from an earlier
\* attempt is executed
GenerationFailedRunsKept ==
    IF attempt = max_retries - 1 \/ ~StrTruthy(current_code)
    THEN /\ Return(populate_format_with_timeout_message(expected_format),
                   "generation_failed")
         /\ UNCHANGED attempt
    ELSE /\ pc' = "execute"
         /\ UNCHANGED <<attempt, result, ret>>

\* lines 116-124: the handler of a failed generation
GenerationFailed ==
    IF attempt = max_retries - 1
    THEN /\ Return(populate_format_with_timeout_message(expected_format),
                   "generation_failed")
         /\ UNCHANGED attempt
    ELSE /\ attempt' = attempt + 1
         /\ pc' = "loop"
         /\ UNCHANGED <<result, ret>>

GenerateCode ==
    /\ pc = "generate"
    /\ \E ev \in GeneratorEvents(CodeReplies, GenerateCodeDefaultTimeout) :
        LET r == generate_code_for_task(ev, GenerationTimeout, feedback)
        IN  /\ CallWith("generate", GenerationTimeout, r.dur, r.fb_in_prompt,
                        IF StrTruthy(feedback) THEN {feedback} ELSE {},
                        IF ~r.returns \/ r.error = "RuntimeError" THEN ""
                        ELSE IF r.raw = StubCode THEN "stub" ELSE "text")
            /\ IF ~r.returns
               THEN /\ pc' = "hung"
                    /\ UNCHANGED <<elapsed, attempt, current_code, result, ret>>
               ELSE /\ elapsed' = elapsed + r.dur
                    /\ IF r.exc
                       THEN GenerationFailed /\ UNCHANGED current_code
                       ELSE /\ current_code' = r.code
                            /\ pc' = "execute"
                            /\ UNCHANGED <<attempt, result, ret>>
    /\ UNCHANGED <<has_openai, probe, loop, deadline_secs, lastExec, expected_format, feedback, last_result, verdict>>

\* faulty variant: the sandbox is given its cap whatever the budget
ExecutionTimeoutCapOnly == ExecutionCap

\* lines 126-160: the budget check before execution, then the sandbox run
ExecutionTimeout == Min(ExecutionCap, remaining)

\* line 160: the result recorded when run_python_in_sandbox raises
SandboxRaised == SandboxResult(FALSE, "", "error", None)

ExecuteSkipped ==
    /\ pc = "execute"
    /\ remaining <= ExecutionThreshold
    /\ Return(populate_format_with_timeout_message(expected_format),
              "timeout_execution")
    /\ UNCHANGED <<has_openai, probe, loop, deadline_secs, lastExec, elapsed, attempt, expected_format, current_code,
                   feedback, last_result, calls, lastCall, verdict>>

Execute ==
    /\ pc = "execute"
    /\ remaining > ExecutionThreshold
    /\ \E ev \in SandboxEvents(current_code, ExecutionTimeout) :
        LET r == run_python_in_sandbox(current_code, ev, ExecutionTimeout)
        IN  /\ Call("execute", ExecutionTimeout, r.dur, FALSE)
            /\ elapsed' = elapsed + r.dur
            /\ last_result' = IF r.exc THEN SandboxRaised ELSE r.data
    /\ lastExec' = [attempt |-> attempt, code |-> current_code]
    /\ pc' = "validate"
    /\ UNCHANGED <<has_openai, probe, loop, deadline_secs, attempt, expected_format, current_code, feedback,
                   result, ret, verdict>>

\* faulty variant: the raw stdout text is returned without parsing
ResolveOutputRaw(res) == JStr(res.stdout)

\* lines 214-219: the answer of a run judged valid
ResolveOutput(res) ==
    IF res.stdout_json # None THEN res.stdout_json
    ELSE IF JsonLoads(res.stdout) # JsonError THEN JsonLoads(res.stdout)
    ELSE JStr(res.stdout)

\* faulty variant: output that does not parse is returned as raw text
DegradedOutputRaw(res, template) ==
    IF res.stdout_json # None THEN res.stdout_json
    ELSE IF JsonLoads(res.stdout) # JsonError THEN JsonLoads(res.stdout)
    ELSE JStr(res.stdout)

\* lines 167-172: the answer returned without validation
DegradedOutput(res, template) ==
    IF res.stdout_json # None THEN res.stdout_json
    ELSE IF JsonLoads(res.stdout) # JsonError THEN JsonLoads(res.stdout)
    ELSE populate_format_with_timeout_message(template)

\* faulty variant: a failed execution is treated as a successful one
ExecutionOkAlways(res) == TRUE

\* lines 166 and 179: last_result.get("ok", False)
ExecutionOk(res) == res.ok

\* lines 162-176: too little time left to validate
ValidateSkipped ==
    /\ pc = "validate"
    /\ remaining <= ValidationThreshold
    /\ IF ExecutionOk(last_result)
       THEN Return(DegradedOutput(last_result, expected_format), "degraded")
       ELSE Return(populate_format_with_timeout_message(expected_format),
                   "degraded_fallback")
    /\ UNCHANGED <<has_openai, probe, loop, deadline_secs, lastExec, elapsed, attempt, expected_format, current_code,
                   feedback, last_result, calls, lastCall, verdict>>

\* faulty variant: the first failed attempt ends the run
AttemptFailedGivesUp ==
    /\ Return(populate_format_with_timeout_message(expected_format), "exhausted")
    /\ UNCHANGED attempt

\* faulty variant: the expected format is extracted again for every retry
AttemptFailedReextracts ==
    IF attempt = max_retries - 1
    THEN /\ Return(populate_format_with_timeout_message(expected_format),
                   "exhausted")
         /\ UNCHANGED attempt
    ELSE /\ attempt' = attempt + 1
         /\ pc' = "extract"
         /\ UNCHANGED <<result, ret>>

\* lines 233-240: end of an attempt that produced no valid result
AttemptFailed ==
    IF attempt = max_retries - 1
    THEN /\ Return(populate_format_with_timeout_message(expected_format),
                   "exhausted")
         /\ UNCHANGED attempt
    ELSE /\ attempt' = attempt + 1
         /\ pc' = "loop"
         /\ UNCHANGED <<result, ret>>

\* line 179 false: the execution failed, nothing to validate
ExecutionFailed ==
    /\ pc = "validate"
    /\ remaining > ValidationThreshold
    /\ ~ExecutionOk(last_result)
    /\ AttemptFailed
    /\ UNCHANGED <<has_openai, probe, loop, deadline_secs, lastExec, elapsed, expected_format, current_code, feedback,
                   last_result, calls, lastCall, verdict>>

\* line 185
ValidatorTimeout == Min(ValidationCap, remaining - ValidationBuffer)

\* line 207, validation_elapsed > validator_timeout: the interval measured
\* around validate_output (a float) also covers building the prompt and
\* parsing the reply, so a call that used up its whole timeout measures more
ValidationOverran(dur, timeout) == dur >= timeout

\* lines 179-231: validate the output of a successful execution
Validate ==
    /\ pc = "validate"
    /\ remaining > ValidationThreshold
    /\ ExecutionOk(last_result)
    /\ \E ev \in GeneratorEvents(VerdictReplies, ValidatorTimeout) :
        LET r == validate_output(last_result, ev, ValidatorTimeout)
            late == ~r.exc /\ ValidationOverran(r.dur, ValidatorTimeout)
            is_valid == ~r.exc /\ (Truthy(r.is_valid) \/ late)
        IN  /\ CallWith("validate", ValidatorTimeout, r.dur, FALSE, {},
                        IF r.exc \/ Truthy(r.is_valid) THEN "" ELSE r.feedback)
            /\ elapsed' = elapsed + r.dur
            /\ verdict' = [called |-> TRUE, raised |-> r.exc,
                           valid |-> ~r.exc /\ Truthy(r.is_valid), late |-> late]
            /\ IF is_valid
               THEN Return(ResolveOutput(last_result), "valid") /\ UNCHANGED attempt
               ELSE AttemptFailed
    /\ UNCHANGED <<has_openai, probe, loop, deadline_secs, lastExec, expected_format, current_code, feedback,
                   last_result>>

Next ==
    \/ ExtractFormat
    \/ LoopTop
    \/ GenerateFeedback
    \/ GenerateCode
    \/ ExecuteSkipped
    \/ Execute
    \/ ValidateSkipped
    \/ ExecutionFailed
    \/ Validate

Spec == Init /\ [][Next]_vars

----------------------------------------------------------------------------
(* The stage functions applied on their own, to any input they accept.     *)

\* the timeouts a caller passes
Timeouts == {ValidationCap, FormatCap, GenerationCap, ExecutionCap}

\* sandbox results: of a child that exited with code 0, of one that failed,
\* and the one recorded when the sandbox call raised
CodeOutputs ==
    {SandboxResult(TRUE, out, "", ParseStdout(out)) : out \in Stdouts}
        \cup {SandboxResult(FALSE, "", "Traceback", ParseStdout("")), SandboxRaised}

\* replies to the validation prompt, among them JSON that is no verdict
FnVerdictReplies ==
    VerdictReplies \cup {"  \n", "{}", "{\"feedback\": \"too few rows\"}", "7", "\"ok\"",
                         "{\"valid\": \"false\", \"feedback\": \"wrong total\"}"}

FnInit ==
    /\ pc = "fn"
    /\ deadline_secs = MaxDeadline
    /\ elapsed = 0
    /\ attempt = 0
    /\ expected_format = None
    /\ current_code = NoneStr
    /\ feedback = NoneStr
    /\ last_result = Unbound
    /\ result = None
    /\ ret = [path |-> "none", attempt |-> 0]
    /\ calls = [extract |-> 0, feedback |-> 0, generate |-> 0, execute |-> 0,
                validate |-> 0]
    /\ lastCall = NoCall
    /\ verdict = NoVerdict
    /\ lastExec = [attempt |-> -1, code |-> NoneStr]
    /\ has_openai \in BOOLEAN
    /\ probe = NoProbe
    /\ loop = NoLoop

\* one application per behaviour
FnUnchanged ==
    /\ pc' = "applied"
    /\ UNCHANGED <<deadline_secs, elapsed, attempt, expected_format, current_code,
                   feedback, last_result, result, ret, calls, lastCall, verdict,
                   lastExec, has_openai, loop>>

\* validate_output called with a sandbox result and a timeout
ApplyValidateOutput ==
    /\ pc = "fn"
    /\ \E timeout \in Timeouts, code_output \in CodeOutputs :
         \E ev \in GeneratorEvents(FnVerdictReplies, timeout) :
            probe' = [fn |-> "validate_output", code_output |-> code_output,
                      ev |-> ev, timeout |-> timeout,
                      out |-> validate_output(code_output, ev, timeout)]
    /\ FnUnchanged

\* everything that can happen to a sandbox call, and what a child may print
SandboxKinds == {"exit", "oserror", "create_error", "write_error", "raise"}
FnStdouts == Stdouts \cup {"{\"a\": 1}\n"}

\* run_python_in_sandbox called with a script and a timeout
ApplySandbox ==
    /\ pc = "fn"
    /\ \E timeout \in Timeouts, code \in {"print(1)\n", ""} :
         \E ev \in SandboxEventsOf(SandboxKinds, FnStdouts, code, timeout) :
            probe' = [fn |-> "run_python_in_sandbox", code |-> code,
                      ev |-> ev, timeout |-> timeout,
                      out |-> run_python_in_sandbox(code, ev, timeout)]
    /\ FnUnchanged

\* _build_script called with one attachment and a questions text; one of the
\* three injected values is any text, the other two are plain
ApplyBuildScript ==
    /\ pc = "fn"
    /\ \E s \in Texts, role \in {"name", "data", "questions_txt"} :
         LET name == IF role = "name" THEN s ELSE <<"a">>
             data == IF role = "data" THEN s ELSE <<"a">>
             questions_txt == IF role = "questions_txt" THEN s ELSE <<"a">>
         IN  probe' = [fn |-> "_build_script", name |-> name, data |-> data,
                       questions_txt |-> questions_txt,
                       out |-> RunHarness(_build_script("USERCODE", name, data,
                                                        questions_txt))]
    /\ FnUnchanged

\* deepest nesting of a template
MaxDepth == 2

TemplateLeaves == {JStr("x"), JNum(7), JBool(TRUE), JNull}

\* templates nested at most d deep: leaves, lists of up to two elements and
\* objects of up to two keys
RECURSIVE TemplatesOf(_)
TemplatesOf(d) ==
    IF d = 0 THEN TemplateLeaves
    ELSE LET T == TemplatesOf(d - 1)
         IN  T \cup {JArr(<<>>)}
               \cup {JArr(<<t>>) : t \in T}
               \cup {JArr(<<t, l>>) : t \in T, l \in TemplateLeaves}
               \cup {JObj(<<"a">>, <<t>>) : t \in T}
               \cup {JObj(<<"a", "b">>, <<t, l>>) : t \in T, l \in TemplateLeaves}

\* populate_format_with_timeout_message called with a template or None, and
\* called again with what it returned
ApplyPopulate ==
    /\ pc = "fn"
    /\ \E t \in TemplatesOf(MaxDepth) :
         probe' = [fn |-> "populate_format_with_timeout_message",
                   format_template |-> t,
                   out |-> populate_format_with_timeout_message(t),
                   again |-> populate_format_with_timeout_message(
                                 populate_format_with_timeout_message(t))]
    /\ FnUnchanged

FnFormatReplies ==
    FormatReplies \cup {"use {\"name\": \"x\", \"n\": [1, 2]} please",
                        "{x} then [7, \"x\", true]",
                        "Format: {\"a\": {\"b\": 1}} thanks"}

\* extract_expected_format called on its own
ApplyExtractFormat ==
    /\ pc = "fn"
    /\ \E timeout \in Timeouts :
         \E ev \in GeneratorEvents(FnFormatReplies, timeout) :
            probe' = [fn |-> "extract_expected_format", ev |-> ev,
                      timeout |-> timeout,
                      out |-> extract_expected_format(ev, timeout)]
    /\ FnUnchanged

ErrorMessages == {ErrorMessage, "KeyError: total"}

\* generate_feedback_for_retry called on its own
ApplyGenerateFeedback ==
    /\ pc = "fn"
    /\ \E timeout \in Timeouts, error_message \in ErrorMessages :
         \E ev \in GeneratorEvents(FeedbackReplies, timeout) :
            probe' = [fn |-> "generate_feedback_for_retry",
                      error_message |-> error_message, ev |-> ev,
                      timeout |-> timeout,
                      out |-> generate_feedback_for_retry(error_message, ev,
                                                          timeout)]
    /\ FnUnchanged

(* routes/api.py *)

\* most files in one upload
MaxFiles == 3

FieldNames == {"questions.txt", "file", ""}
FileNames == {"QUESTIONS.TXT", "data.csv", ""}
\* file contents: text, blank text, and bytes that are not UTF-8
Contents == {"q", " ", "BYTE_FF"}
Uploads == [field : FieldNames, filename : FileNames, content : Contents]

RECURSIVE UploadLists(_)
UploadLists(n) ==
    IF n = 0 THEN {<<>>}
    ELSE LET L == UploadLists(n - 1)
         IN  L \cup {Append(l, f) : l \in {k \in L : Len(k) = n - 1}, f \in Uploads}

\* str.lower() of the names in use
Lower(text) ==
    CASE text = "QUESTIONS.TXT" -> "questions.txt"
      [] OTHER -> text

\* bytes.decode("utf-8", errors="ignore"): bytes that are not UTF-8 are dropped
DecodeIgnore(content) ==
    CASE content = "BYTE_FF" -> ""
      [] OTHER -> content

\* str.strip() of the texts in use
Strip(text) ==
    CASE text = " " -> ""
      [] OTHER -> text

IsQuestions(f) ==
    Lower(f.field) = "questions.txt" \/ Lower(f.filename) = "questions.txt"

\* index of the first file named questions.txt, 0 when there is none
QIndex(files) ==
    LET Q == {i \in 1..Len(files) : IsQuestions(files[i])}
    IN  IF Q = {} THEN 0 ELSE CHOOSE i \in Q : \A j \in Q : i <= j

\* the key of the i-th file (counted from 1) in the attachments
AttachmentName(files, i) ==
    IF files[i].filename # "" THEN files[i].filename
    ELSE IF files[i].field # "" THEN files[i].field
    ELSE "file_" \o ToString(i - 1)

\* the attachments dict: a later file replaces an earlier one of the same key
Attachments(files) ==
    LET q == QIndex(files)
        I == {i \in 1..Len(files) : i # q}
    IN  [name \in {AttachmentName(files, i) : i \in I} |->
            LET same == {i \in I : AttachmentName(files, i) = name}
            IN  files[CHOOSE i \in same : \A j \in same : j <= i].content]

\* analyze(request): the answer when the request is refused, else the call of
\* run_pipeline
analyze(form_ok, files) ==
    LET q == QIndex(files)
        questions == IF q = 0 THEN NoneStr ELSE DecodeIgnore(files[q].content)
    IN  IF ~form_ok
        THEN [status |-> 400, invoked |-> FALSE, questions |-> NoneStr,
              attachments |-> <<>>]
        ELSE IF questions = NoneStr \/ questions = "" \/ Strip(questions) = ""
        THEN [status |-> 400, invoked |-> FALSE, questions |-> NoneStr,
              attachments |-> <<>>]
        ELSE [status |-> 0, invoked |-> TRUE, questions |-> questions,
              attachments |-> Attachments(files)]

ApplyAnalyze ==
    /\ pc = "fn"
    /\ \E form_ok \in BOOLEAN, files \in UploadLists(MaxFiles) :
         /\ (~form_ok => files = <<>>)
         /\ probe' = [fn |-> "analyze", form_ok |-> form_ok, files |-> files,
                      out |-> analyze(form_ok, files)]
    /\ FnUnchanged

(* pipeline.py: a budget check and the timeout computed after it *)

\* longest time, in seconds, that the log write between a budget check and
\* the call that follows it may take
MaxStall == 25

\* lines 81 and 163: the budget checks before feedback generation and before
\* validation, made at any second of a run; the run goes on to the call
\* only when the check finds enough time
BudgetCheck ==
    /\ pc = "fn"
    /\ \E d \in Deadlines, e \in 0..MaxDeadline, stage \in {"feedback", "validate"} :
         /\ deadline_secs' = d
         /\ elapsed' = e
         /\ remaining' > (IF stage = "feedback" THEN FeedbackThreshold
                          ELSE ValidationThreshold)
         /\ probe' = [fn |-> "budget_check", stage |-> stage, rem |-> remaining']
    /\ pc' = "checked"
    /\ UNCHANGED <<attempt, expected_format, current_code, feedback, last_result,
                   result, ret, calls, lastCall, verdict, lastExec, has_openai,
                   loop>>

\* lines 88-96 and 180-185: the log line is written (a blocking file write,
\* logger.py:33-35), then remaining() is read again for the timeout
IssueTimeout ==
    /\ pc = "checked"
    /\ deadline_secs' = deadline_secs
    /\ \E stall \in 0..MaxStall :
         /\ elapsed' = elapsed + stall
         /\ probe' = [fn |-> "stage_timeout", stage |-> probe.stage,
                      checked |-> probe.rem, stall |-> stall,
                      timeout |-> IF probe.stage = "feedback"
                                  THEN FeedbackTimeout'
                                  ELSE ValidatorTimeout']
    /\ pc' = "applied"
    /\ UNCHANGED <<attempt, expected_format, current_code, feedback,
                   last_result, result, ret, calls, lastCall, verdict, lastExec,
                   has_openai, loop>>

FnNext ==
    \/ BudgetCheck
    \/ IssueTimeout
    \/ ApplyAnalyze
    \/ ApplyExtractFormat
    \/ ApplyGenerateFeedback
    \/ ApplyValidateOutput
    \/ ApplySandbox
    \/ ApplyBuildScript
    \/ ApplyPopulate

FnSpec == FnInit /\ [][FnNext]_vars

-----------------------------------------------------------------------------
(* Two requests served by one event loop: each coroutine goes through the
   external calls of one attempt of run_pipeline *)

\* last second of the clock
MaxNow == 6

\* seconds an external call takes
CallTimes == {1, 2}

Requests == {1, 2}

\* the external calls of one attempt, in order (pipeline.py:28, 103, 138, 188)
NextStage(stage) ==
    CASE stage = "extract" -> "generate"
      [] stage = "generate" -> "execute"
      [] stage = "execute" -> "validate"
      [] OTHER -> "done"

\* the stages that hand their call to a worker thread and await it
\* (asyncio.to_thread); generate_code_for_task calls generate_code directly
Awaits(stage) == stage \in {"extract", "execute", "validate"}

\* late: seconds between the completion of the awaited call and the
\* resumption of the coroutine, at its last resumption
Coroutine == [stage |-> "extract", waiting |-> FALSE, readyAt |-> 0,
              late |-> 0]

LoopInit ==
    /\ pc = "loop"
    /\ deadline_secs = MaxDeadline
    /\ elapsed = 0
    /\ attempt = 0
    /\ expected_format = None
    /\ current_code = NoneStr
    /\ feedback = NoneStr
    /\ last_result = Unbound
    /\ result = None
    /\ ret = [path |-> "none", attempt |-> 0]
    /\ calls = [extract |-> 0, feedback |-> 0, generate |-> 0, execute |-> 0,
                validate |-> 0]
    /\ lastCall = NoCall
    /\ verdict = NoVerdict
    /\ lastExec = [attempt |-> -1, code |-> NoneStr]
    /\ has_openai = TRUE
    /\ probe = NoProbe
    /\ loop = [now |-> 0, req |-> [r \in Requests |-> Coroutine]]

LoopUnchanged ==
    UNCHANGED <<pc, deadline_secs, elapsed, attempt, expected_format,
                current_code, feedback, last_result, result, ret, calls,
                lastCall, verdict, lastExec, has_openai, probe>>

\* a coroutine reaches an awaited call: the call starts in a worker thread
\* and the coroutine is suspended until it completes
AwaitCall ==
    /\ pc = "loop"
    /\ \E r \in Requests, d \in CallTimes :
         /\ Awaits(loop.req[r].stage) /\ ~loop.req[r].waiting
         /\ loop.now + d <= MaxNow
         /\ loop' = [loop EXCEPT !.req[r].waiting = TRUE,
                                 !.req[r].readyAt = loop.now + d]
    /\ LoopUnchanged

\* the loop resumes a coroutine whose awaited call has completed; the
\* coroutine reads the clock for its next deadline check
ResumeCall ==
    /\ pc = "loop"
    /\ \E r \in Requests :
         /\ loop.req[r].waiting /\ loop.req[r].readyAt <= loop.now
         /\ loop' = [loop EXCEPT !.req[r].waiting = FALSE,
                                 !.req[r].late = loop.now - loop.req[r].readyAt,
                                 !.req[r].stage = NextStage(@)]
    /\ LoopUnchanged

\* a coroutine reaches generate_code_for_task: generate_code runs on the
\* loop's own thread and waits there for the model's reply (fut.result), so
\* nothing else runs until it returns
BlockingCall ==
    /\ pc = "loop"
    /\ \E r \in Requests, d \in CallTimes :
         /\ ~Awaits(loop.req[r].stage) /\ loop.req[r].stage # "done"
         /\ loop.now + d <= MaxNow
         /\ loop' = [loop EXCEPT !.now = @ + d,
                                 !.req[r].stage = NextStage(@)]
    /\ LoopUnchanged

\* the loop is idle: every coroutine is suspended on a call still running,
\* or has finished, and a second passes
LoopIdle ==
    /\ pc = "loop"
    /\ \E r \in Requests : loop.req[r].waiting
    /\ \A r \in Requests :
         \/ loop.req[r].waiting /\ loop.req[r].readyAt > loop.now
         \/ loop.req[r].stage = "done"
    /\ loop.now < MaxNow
    /\ loop' = [loop EXCEPT !.now = @ + 1]
    /\ LoopUnchanged

LoopNext ==
    \/ AwaitCall
    \/ ResumeCall
    \/ BlockingCall
    \/ LoopIdle

LoopSpec == LoopInit /\ [][LoopNext]_vars

----------------------------------------------------------------------------
(* Properties *)

Fallback == populate_format_with_timeout_message(expected_format)

\* C1: in one run of run_pipeline the code generator is invoked at most 3
\* times, whatever the stages do.
C1_RetryBound == calls.generate <= 3

C1_Witness == pc = "done" /\ calls.generate = 3

\* C2: run_pipeline never raises to its caller; a stage that throws becomes
\* a retry or a returned fallback.
C2_NeverRaises == pc # "raised"

\* the sandbox raised in the last attempt and the run returned the fallback
C2_Witness ==
    pc = "done" /\ last_result = SandboxRaised /\ ret.path = "exhausted"

\* C3: run_pipeline eventually returns for every behaviour of the generator:
\* in every state the run has returned or can take a further step.
C3_AlwaysReturns == pc = "done" \/ ENABLED Next

StageCap(stage) ==
    CASE stage = "extract" -> 30
      [] stage = "feedback" -> 15
      [] stage = "generate" -> 60
      [] stage = "execute" -> 90
      [] stage = "validate" -> 15
      [] OTHER -> 0

C6_StageReturnsByTimeout ==
    lastCall.stage # "none" => lastCall.dur <= lastCall.timeout

\* C7: with a deadline of 12s and a code generation call that takes 20s the
\* run starts no execution, returns the fallback, and returns by the deadline.
C7_SlowGeneratorScenario ==
    (pc = "done" /\ deadline_secs = 12 /\ lastCall.stage = "generate"
        /\ lastCall.dur = 20)
    => (calls.execute = 0 /\ result = Fallback /\ elapsed <= deadline_secs)

\* C8: when validate_output returns valid, the run returns in that attempt
\* the answer resolved from that attempt's sandbox result (stdout_json, else
\* the JSON parse of stdout).
C8_ValidReturnsAnswer ==
    (verdict.called /\ verdict.valid) =>
        /\ pc = "done" /\ ret.path = "valid" /\ ret.attempt = attempt
        /\ lastExec.attempt = attempt
        /\ result = IF last_result.stdout_json # None THEN last_result.stdout_json
                    ELSE JsonLoads(last_result.stdout)
        /\ result # JsonError

C8_Witness ==
    pc = "done" /\ verdict.called /\ verdict.valid /\ attempt = 1
      /\ result = JsonLoads("[1, 2, 3]")

\* the step that ends the validation stage of an attempt that is not the last
EndsAttempt == pc = "validate" /\ attempt < 2 /\ remaining > 20

\* what run_pipeline does at the top of the attempt that follows a failed
\* execution or validation: feedback generation (skipped for empty code),
\* then generation
RetryProceeds(feedbackNeedsCode) ==
    /\ (pc = "loop" /\ attempt > 0 /\ lastExec.attempt = attempt - 1
          /\ remaining > 30 /\ (feedbackNeedsCode => StrTruthy(current_code)))
       => pc' = "feedback"
    /\ (pc = "loop" /\ attempt > 0 /\ lastExec.attempt = attempt - 1
          /\ remaining > 10 /\ feedbackNeedsCode /\ ~StrTruthy(current_code))
       => pc' = "generate"
    /\ pc = "feedback" => (pc' = "generate" /\ calls'.feedback = calls.feedback + 1)
    /\ pc = "generate" => calls'.generate = calls.generate + 1

C10_RetryHasFeedback ==
    (lastCall.stage = "generate" /\ lastCall.attempt > 0) => lastCall.fb

\* C11: when validate_output judges an output invalid with feedback F, the
\* retry carries F: the first call of the retry (generate_feedback_for_retry,
\* or the code generation when no feedback is generated) is handed F as
\* part of the description of the failure.
C11_FeedbackCarried ==
    [][(/\ lastCall.stage = "validate" /\ lastCall.got # ""
        /\ (calls'.feedback > calls.feedback \/ calls'.generate > calls.generate))
       => lastCall.got \in lastCall'.handed]_vars

\* C12: when the budget check before validation fails (remaining <= 20
\* after execution), run_pipeline returns in that step without calling the
\* validator: the parsed output of a successful execution whose stdout is
\* JSON, and the fallback when the execution failed or stdout is not JSON.
C12_DegradedPath ==
    [][(pc = "validate" /\ remaining <= ValidationThreshold)
       => /\ pc' = "done"
          /\ calls' = calls /\ verdict' = verdict
          /\ result' = IF last_result.ok /\ JsonLoads(last_result.stdout) # JsonError
                       THEN JsonLoads(last_result.stdout)
                       ELSE Fallback]_vars

\* an execution that succeeded too late to be validated; its parsed output
\* is returned
C12_Witness ==
    /\ pc = "done" /\ ret.path = "degraded"
    /\ last_result.ok /\ result = JsonLoads("[1, 2, 3]")
    /\ lastCall.stage = "execute" /\ ~verdict.called

\* the third attempt ends without a result the pipeline takes as valid:
\* the generation failed, the execution failed, or the verdict is invalid
\* (a verdict of a validation that overran its timeout counts as valid)
ThirdAttemptFails ==
    /\ attempt = max_retries - 1
    /\ \/ pc = "generate" /\ calls'.generate > calls.generate
            /\ pc' \notin {"execute", "hung"}
       \/ pc = "validate" /\ ~last_result.ok
       \/ pc = "validate" /\ verdict'.called /\ ~verdict'.valid /\ ~verdict'.late

FallbackExits == {"unexpected_end", "timeout_generation", "timeout_feedback",
                  "generation_failed", "timeout_execution", "degraded",
                  "degraded_fallback", "exhausted"}

\* C15: format extraction is invoked exactly once per run, before the first
\* generation attempt, and its template is used only for the value returned
\* on a deadline-exhausted or all-attempts-failed exit: the value of a
\* success exit is the parsed output whatever the template is.
C15_ExtractionOnceTemplateOnFallback ==
    /\ pc = "extract" => (calls.extract = 0 /\ calls.generate = 0)
    /\ pc # "extract" => calls.extract = 1
    /\ (pc = "done" /\ ret.path = "valid")
          => (result = JsonLoads(last_result.stdout) /\ result # JsonError)
    /\ (pc = "done" /\ result = Fallback /\ result # JsonLoads(last_result.stdout))
          => ret.path \in FallbackExits

\* a run with a template that ended on the success exit with the parsed
\* output after two attempts
C15_Witness ==
    /\ pc = "done" /\ ret.path = "valid" /\ ret.attempt = 1
    /\ expected_format # None /\ calls.extract = 1
    /\ result = JsonLoads("[1, 2, 3]")

\* validate_output was applied to a successful execution with JSON stdout
ValidatorAsked ==
    /\ probe.fn = "validate_output"
    /\ probe.code_output.ok
    /\ JsonLoads(probe.code_output.stdout) # JsonError

\* the generator call behind it raised, or did not answer within the timeout
ValidatorCallFailed ==
    \/ probe.ev.fault # "none"
    \/ probe.ev.available
         /\ (~probe.ev.responds \/ ~InTime(probe.ev.d, probe.timeout, probe.ev.edge))

\* C16: for a sandbox result with ok = true and JSON stdout, when the
\* generator call of the validator raises or exceeds its timeout,
\* validate_output returns (True, diagnostic text) and does not raise.
C16_ValidatorFailsOpen ==
    (ValidatorAsked /\ ValidatorCallFailed)
        => /\ ~probe.out.exc
           /\ probe.out.is_valid = JBool(TRUE)
           /\ probe.out.feedback # ""

\* the validator's call did not answer within 15 seconds and the output was
\* let through
C16_Witness ==
    /\ ValidatorAsked /\ probe.ev.available /\ ~probe.ev.responds
    /\ probe.timeout = 15 /\ probe.out.dur = 15
    /\ probe.out.is_valid = JBool(TRUE)

\* the generator's reply reached validate_output within the timeout
ReplyDelivered ==
    /\ ValidatorAsked
    /\ probe.ev.available /\ probe.ev.responds /\ probe.ev.fault = "none"
    /\ InTime(probe.ev.d, probe.timeout, probe.ev.edge)

\* the reply is not a verdict object: it does not parse, or it is JSON that
\* is not an object with a "valid" field
NotAVerdict(text) ==
    LET v == JsonLoads(VerdictFence(text))
    IN  \/ v = JsonError
        \/ v.t # "obj"
        \/ ~\E i \in 1..Len(v.keys) : v.keys[i] = "valid"

ReturnsInvalid ==
    /\ ~probe.out.exc
    /\ ~Truthy(probe.out.is_valid)
    /\ probe.out.feedback # ""

\* C17 as stated: whenever the reply to the validation prompt is not a
\* well-formed verdict object (unparseable text, empty text, or JSON that is
\* not an object with a valid field), validate_output returns invalid with
\* a diagnostic feedback string.
C17_MalformedIsInvalid ==
    (ReplyDelivered /\ NotAVerdict(probe.ev.reply)) => ReturnsInvalid

\* C17 (amended): a reply that is not empty and not a verdict object gives
\* invalid with a diagnostic feedback string; an empty or blank reply gives
\* valid (lines 99-102).
C17_NonEmptyMalformedIsInvalid ==
    /\ (ReplyDelivered /\ NotAVerdict(probe.ev.reply) /\ StripText(probe.ev.reply) # "")
          => ReturnsInvalid
    /\ (ReplyDelivered /\ StripText(probe.ev.reply) = "")
          => (~probe.out.exc /\ probe.out.is_valid = JBool(TRUE))

\* the validator answered with a JSON list, which is no verdict, and the
\* output was judged invalid
C17_Witness ==
    /\ ReplyDelivered /\ probe.ev.reply = "[1, 2, 3]"
    /\ probe.out.is_valid = JBool(FALSE)
    /\ probe.out.feedback = "Validation parsing error. Raw response: [1, 2, 3]"

\* C18: when the generator returns an empty string or the stub script,
\* generate_code_for_task raises CodeGenError and returns no code; in
\* run_pipeline the attempt counts as a failed generation (the next attempt
\* follows, or the fallback is returned after the third) and no sandbox
\* execution is started for it.
C18_StubRejected ==
    [][(calls'.generate > calls.generate /\ lastCall'.got = "stub")
       => /\ current_code' = current_code
          /\ calls'.execute = calls.execute /\ lastExec' = lastExec
          /\ IF attempt < max_retries - 1
             THEN pc' = "loop" /\ attempt' = attempt + 1
             ELSE pc' = "done" /\ result' = Fallback]_vars

\* the generator answered the second attempt with the stub although it is
\* configured; the attempt failed and the code of the first attempt is kept
C18_Witness ==
    /\ has_openai /\ pc = "loop" /\ attempt = 2
    /\ lastCall.stage = "generate" /\ lastCall.attempt = 1 /\ lastCall.got = "stub"
    /\ current_code = "print(1)\n" /\ lastExec.attempt = 0

\* C19: a request with questions and no attachments ends either with the
\* answer printed by generated code that was validated or, when the
\* generator is unavailable (text generation returns empty, code generation
\* returns the stub), with the filled template or the timeout object, reached
\* after the 3 generation attempts with no sandbox execution.  The request
\* comes with a deadline that lets the first attempt start.
C19_QuestionsOnlyScenario ==
    (pc = "done" /\ deadline_secs > GenerationThreshold) =>
        /\ (has_openai /\ ret.path = "valid")
              => /\ verdict.called /\ last_result.ok
                 /\ result = JsonLoads(last_result.stdout) /\ result # JsonError
        /\ ~has_openai
              => /\ calls.generate = 3 /\ calls.execute = 0
                 /\ ret.path = "generation_failed"
                 /\ \/ expected_format # None /\ result = fill_template(expected_format)
                    \/ result = JObj(<<"error", "result">>,
                                     <<JStr("timeout"), JStr("default")>>)

\* the generator is not configured: three generation attempts, no
\* execution, the timeout object
C19_Witness ==
    /\ ~has_openai /\ pc = "done"
    /\ calls.generate = 3 /\ calls.execute = 0 /\ calls.extract = 1
    /\ lastCall.got = "stub"
    /\ result = JObj(<<"error", "result">>, <<JStr("timeout"), JStr("default")>>)

\* C20: when the child process is still running at the timeout,
\* run_python_in_sandbox returns ok = false, stderr = "timeout", stdout = ""
\* and stdout_json None, no later than the timeout, and the child has been
\* killed and reaped when the call returns.
C20_SandboxTimeout ==
    (/\ probe.fn = "run_python_in_sandbox" /\ probe.ev.kind = "exit"
     /\ ~InTime(probe.ev.d, probe.timeout, probe.ev.edge))
        => /\ ~probe.out.exc
           /\ probe.out.data = [set |-> TRUE, ok |-> FALSE, stdout |-> "",
                                stderr |-> "timeout", stdout_json |-> None]
           /\ probe.out.child = "reaped"
           /\ probe.out.dur <= probe.timeout

\* a child that would have printed a result after 100 seconds is stopped at
\* a timeout of 90 seconds
C20_Witness ==
    /\ probe.fn = "run_python_in_sandbox" /\ probe.ev.kind = "exit"
    /\ probe.ev.d = MaxDur /\ probe.timeout = ExecutionCap
    /\ probe.ev.rc = 0 /\ probe.ev.stdout = "[1, 2, 3]"
    /\ probe.out.data.stderr = "timeout" /\ probe.out.child = "reaped"

\* the child of the probed sandbox call exited on its own within the timeout
ChildExited ==
    /\ probe.fn = "run_python_in_sandbox" /\ probe.ev.kind = "exit"
    /\ InTime(probe.ev.d, probe.timeout, probe.ev.edge)

\* C21: when the child exits on its own, run_python_in_sandbox returns ok
\* exactly when the exit code is 0, stdout_json is the JSON parse of the
\* whole stdout when it parses and None otherwise, and the call does not
\* raise.
C21_NormalExit ==
    ChildExited
        => /\ ~probe.out.exc
           /\ probe.out.data.ok = (probe.ev.rc = 0)
           /\ probe.out.data.stdout = probe.ev.stdout
           /\ probe.out.data.stdout_json =
                 IF JsonLoads(probe.ev.stdout) # JsonError
                 THEN JsonLoads(probe.ev.stdout) ELSE None

\* the script printed {"a": 1} and exited with code 0
C21_Witness ==
    /\ ChildExited /\ probe.ev.rc = 0 /\ probe.ev.stdout = "{\"a\": 1}\n"
    /\ probe.out.data.ok
    /\ probe.out.data.stdout_json = JObj(<<"a">>, <<JNum(1)>>)

\* C22: any failure while preparing or launching the child (building the
\* harness script, writing the temporary file, starting the process) makes
\* run_python_in_sandbox return ok = false with the error text in stderr;
\* the call does not raise.
C22_LaunchFailureReturned ==
    (probe.fn = "run_python_in_sandbox" /\ probe.ev.kind # "exit")
        => /\ ~probe.out.exc
           /\ ~probe.out.data.ok
           /\ probe.out.data.stderr # ""

\* C23: on every exit path of run_python_in_sandbox the temporary script
\* file it created no longer exists when the call returns.
C23_TempFileRemoved ==
    probe.fn = "run_python_in_sandbox" => probe.out.tmpfile # "left"

\* C24: for every attachment name, attachment bytes and questions text
\* (with quotes, null characters, newlines, backslashes and characters
\* outside ASCII), the harness keeps the structure _build_script laid out and
\* the user code sees the original name, bytes and questions text.
C24_InjectionRoundTrip ==
    probe.fn = "_build_script"
        => /\ probe.out.ok
           /\ probe.out.name = probe.name
           /\ probe.out.data = probe.data
           /\ probe.out.questions_txt = probe.questions_txt

\* attachment bytes made of a single quote and a newline come back unchanged
C24_Witness ==
    /\ probe.fn = "_build_script"
    /\ probe.data = <<"QUOTE", "NL">>
    /\ probe.out.ok /\ probe.out.data = <<"QUOTE", "NL">>

\* C25: populate_format_with_timeout_message is idempotent: for every
\* template T it accepts, None included, populate(populate(T)) equals
\* populate(T).
C25_PopulateIdempotent ==
    probe.fn = "populate_format_with_timeout_message" => probe.again = probe.out

\* r is t with the same keys at every level, every leaf replaced by the
\* placeholder of its type and every non-empty list cut to one element
RECURSIVE Placeholders(_, _)
Placeholders(t, r) ==
    CASE t.t = "obj" ->
            /\ r.t = "obj" /\ r.keys = t.keys /\ Len(r.items) = Len(t.items)
            /\ \A i \in 1..Len(t.items) : Placeholders(t.items[i], r.items[i])
      [] t.t = "arr" ->
            /\ r.t = "arr"
            /\ Len(r.items) = IF Len(t.items) = 0 THEN 0 ELSE 1
            /\ Len(t.items) > 0 => Placeholders(t.items[1], r.items[1])
      [] t.t = "str" -> r = JStr("default")
      [] t.t = "num" -> r = JNum(0)
      [] t.t = "bool" -> r = JBool(FALSE)
      [] OTHER -> r = JStr("default")

\* C26: for every template that is not None, populate_format_with_timeout_message
\* returns a value with the same object keys at every level, every leaf
\* replaced by its typed placeholder (string "default", number 0, boolean
\* false, null "default") and every non-empty list reduced to one filled
\* element; for None it returns the fixed object {"error": "timeout",
\* "result": "default"}.
C26_PopulateShape ==
    probe.fn = "populate_format_with_timeout_message"
        => IF probe.format_template = None
           THEN probe.out = JObj(<<"error", "result">>,
                                 <<JStr("timeout"), JStr("default")>>)
           ELSE Placeholders(probe.format_template, probe.out)

\* an object holding a list of a boolean and a number, and a null
C26_Witness ==
    /\ probe.fn = "populate_format_with_timeout_message"
    /\ probe.format_template =
          JObj(<<"a", "b">>, <<JArr(<<JBool(TRUE), JNum(7)>>), JNull>>)
    /\ probe.out =
          JObj(<<"a", "b">>, <<JArr(<<JBool(FALSE)>>), JStr("default")>>)

\* the generator's reply reached extract_expected_format in time
FormatReplyDelivered ==
    /\ probe.fn = "extract_expected_format"
    /\ probe.ev.available /\ probe.ev.responds /\ probe.ev.fault = "none"
    /\ InTime(probe.ev.d, probe.timeout, probe.ev.edge)

\* the object and array substrings of a text that are JSON, in the order
\* they start
EmbeddedJson(text) ==
    CASE text = "Expected: [7, \"x\", true] as the answer" -> <<"[7, \"x\", true]">>
      [] text = "[7, \"x\", true]" -> <<"[7, \"x\", true]">>
      [] text = "{x} then [7, \"x\", true]" -> <<"[7, \"x\", true]">>
      [] text = "use {\"name\": \"x\", \"n\": [1, 2]} please" ->
            <<"{\"name\": \"x\", \"n\": [1, 2]}", "[1, 2]">>
      [] text = "Format: {\"a\": {\"b\": 1}} thanks" ->
            <<"{\"a\": {\"b\": 1}}", "{\"b\": 1}">>
      [] OTHER -> <<>>

\* the first JSON value that can be parsed from a text: the whole text, else
\* its first embedded object or array; None when there is none
FirstJsonValue(text) ==
    IF JsonLoads(text) # JsonError THEN JsonLoads(text)
    ELSE IF EmbeddedJson(text) # <<>> THEN JsonLoads(EmbeddedJson(text)[1])
    ELSE None

\* C27: extract_expected_format never raises; when the generator call times
\* out, raises, or returns text from which no JSON value can be parsed
\* (directly or from an embedded object/array substring) it returns None;
\* otherwise it returns the first JSON value parsed, the whole fence-stripped
\* response being tried before any substring.
C27_ExtractNeverRaises ==
    probe.fn = "extract_expected_format"
        => /\ ~probe.out.exc
           /\ probe.out.template =
                 IF FormatReplyDelivered
                 THEN FirstJsonValue(StripFences(probe.ev.reply))
                 ELSE None

\* the generator call made by generate_feedback_for_retry timed out or
\* failed: no generator, an error inside the call, an error starting it, or
\* no reply in time
FeedbackCallFailed ==
    /\ probe.fn = "generate_feedback_for_retry"
    /\ \/ ~probe.ev.available
       \/ probe.ev.fault # "none"
       \/ ~(probe.ev.responds /\ InTime(probe.ev.d, probe.timeout, probe.ev.edge))

\* the text is one of the synthesized fallbacks, ending in the failure
\* description it was given
EmbedsFailure(text, error_message) ==
    \E lead \in {"Feedback generation timed out. Original error: ",
                 "Could not generate feedback. Original error: "} :
        text = lead \o error_message

\* C28: generate_feedback_for_retry never raises, and whenever its generator
\* call times out or fails (an unavailable generator included) it returns a
\* synthesized fallback string that embeds the original failure description.
C28_FeedbackFallback ==
    probe.fn = "generate_feedback_for_retry"
        => /\ ~probe.out.exc
           /\ FeedbackCallFailed
                 => EmbedsFailure(probe.out.feedback, probe.error_message)

\* the questions file of the upload: the first file whose field name or
\* filename is questions.txt in any letter case, 0 when there is none
QuestionsFile ==
    LET Q == {i \in 1..Len(probe.files) :
                 \/ Lower(probe.files[i].field) = "questions.txt"
                 \/ Lower(probe.files[i].filename) = "questions.txt"}
    IN  IF Q = {} THEN 0 ELSE CHOOSE i \in Q : \A j \in Q : i <= j

QuestionsBlank ==
    \/ QuestionsFile = 0
    \/ Strip(DecodeIgnore(probe.files[QuestionsFile].content)) = ""

\* the questions payload is the text of the questions file; when there is no
\* such file or its text is blank the answer is a 400 and run_pipeline is
\* not invoked
QuestionsOr400 ==
    probe.fn = "analyze"
        => IF ~probe.form_ok \/ QuestionsBlank
           THEN probe.out.status = 400 /\ ~probe.out.invoked
           ELSE /\ probe.out.invoked
                /\ probe.out.questions =
                      DecodeIgnore(probe.files[QuestionsFile].content)

\* C29: the analyze endpoint takes as the questions payload the first
\* uploaded file whose form field name or filename equals questions.txt
\* (case-insensitive) and passes every other uploaded file to the pipeline as
\* an attachment; when no such file is present or its text is blank it
\* answers 400 and run_pipeline is never invoked.
C29_AnalyzeUpload ==
    /\ QuestionsOr400
    /\ (probe.fn = "analyze" /\ probe.out.invoked)
          => \A i \in 1..Len(probe.files) :
                i # QuestionsFile
                   => /\ AttachmentName(probe.files, i) \in DOMAIN probe.out.attachments
                      /\ probe.out.attachments[AttachmentName(probe.files, i)]
                            = probe.files[i].content

\* C30: concurrent requests are independent: while one request waits on an
\* external call (generator call or sandbox execution) the orchestrator
\* suspends cooperatively, so another request keeps making progress and its
\* deadline checks are not delayed by the first request's call: a request
\* whose own call has completed is resumed, and reads the clock, at the
\* second its call completed.
C30_RequestsIndependent ==
    pc = "loop"
        => \A r \in Requests :
              /\ loop.req[r].waiting => loop.now <= loop.req[r].readyAt
              /\ loop.req[r].late = 0

\* C31: no stage is ever issued a zero or negative timeout: the values
\* min(15, remaining() - 10) passed to feedback generation and
\* min(15, remaining() - 5) passed to validation are positive in every
\* reachable state, also when time advances between the budget check and the
\* computation of the timeout.
C31_TimeoutsPositive ==
    probe.fn = "stage_timeout" => probe.timeout > 0

\* the return paths whose value is taken from the sandbox result
SandboxExits == {"valid", "degraded"}

\* C32: run_pipeline never returns as its answer the output of a sandbox
\* execution whose result has ok=false: on every return path that takes the
\* value from a sandbox result, that result has ok=true.
C32_OnlySuccessfulOutput ==
    (pc = "done" /\ ret.path \in SandboxExits)
        => /\ last_result # Unbound
           /\ last_result.ok
           /\ lastExec.attempt = ret.attempt

\* the third attempt's output is returned after validation, the sandbox
\* having run in that attempt and exited normally
C32_Witness ==
    /\ pc = "done" /\ ret.path = "valid" /\ ret.attempt = 2
    /\ lastExec.attempt = 2 /\ last_result.ok
    /\ result = JArr(<<JNum(1), JNum(2), JNum(3)>>)

\* a step that starts a sandbox execution
StartsExecution == calls'.execute # calls.execute

\* C33: every sandbox execution started by run_pipeline runs code that was
\* generated successfully in the same attempt: the call just before it is
\* this attempt's generation, which gave code, and that code is what runs;
\* after a failed generation the code kept from an earlier attempt is not
\* executed again, and at most one execution is started per attempt.
C33_ExecutesFreshCode ==
    [][StartsExecution
          => /\ calls'.execute = calls.execute + 1
             /\ lastCall.stage = "generate" /\ lastCall.attempt = attempt
             /\ lastCall.got = "text"
             /\ current_code # NoneStr
             /\ lastExec'.code = current_code /\ lastExec'.attempt = attempt
             /\ lastExec.attempt < attempt]_vars

\* the first attempt's code ran, the second attempt's generation failed, and
\* the third attempt generated code and ran it
C33_Witness ==
    /\ pc = "validate" /\ attempt = 2
    /\ calls.generate = 3 /\ calls.execute = 2
    /\ lastExec.attempt = 2 /\ lastExec.code = current_code

\* a step that calls generate_feedback_for_retry
AsksFeedback == calls'.feedback # calls.feedback

\* C34: whenever run_pipeline calls generate_feedback_for_retry, the sandbox
\* result it passes is the result of executing exactly the code it passes as
\* previous_code, both from the most recent attempt that reached execution,
\* also after an attempt whose generation failed; the empty-result default is
\* never used. The result and the record of the code that produced it change
\* only in a step that starts an execution.
C34_FeedbackAboutLastRun ==
    [][/\ AsksFeedback
          => /\ last_result.set
             /\ lastExec.attempt >= 0 /\ lastExec.attempt < attempt
             /\ lastExec.code = current_code
             /\ lastCall'.handed = {current_code, ErrorMessage,
                                    last_result.stderr, last_result.stdout}
       /\ (last_result' # last_result \/ lastExec' # lastExec)
          => StartsExecution]_vars

\* feedback is generated for the third attempt about the first attempt's run,
\* the second attempt's generation having failed
C34_Witness ==
    /\ lastCall.stage = "feedback" /\ lastCall.attempt = 2
    /\ calls.generate = 2 /\ calls.execute = 1
    /\ lastExec.attempt = 0 /\ lastExec.code = current_code
    /\ last_result.set /\ current_code \in lastCall.handed

\* the validator's reply arrived in time and is a verdict object
VerdictDelivered ==
    /\ ReplyDelivered
    /\ JsonLoads(VerdictFence(probe.ev.reply)) # JsonError
    /\ JsonLoads(VerdictFence(probe.ev.reply)).t = "obj"

\* the valid field of the delivered verdict, null when it has none
VerdictValidField ==
    DictGet(JsonLoads(VerdictFence(probe.ev.reply)), "valid", JNull)

\* C35: when the validator's generator call answers in time with a parseable
\* verdict object, validate_output reports valid only if the verdict's valid
\* field is the boolean true: with valid=false, no valid field or a valid
\* value that is not a boolean (such as the string "false") the value it
\* returns fails the test `if is_valid` of run_pipeline, so the output is
\* not returned as a success.
C35_OnlyTrueIsValid ==
    (VerdictDelivered /\ VerdictValidField # JBool(TRUE))
        => /\ ~probe.out.exc
           /\ ~Truthy(probe.out.is_valid)

====
